---- MODULE Spec2Model ----
(***************************************************************************)
(* Model of server.py of mcp-file-server: the four file tools and          *)
(* run_command, all confined to BASE_DIR.                                   *)
(*                                                                         *)
(* Strings are sequences of one-character strings, so that                 *)
(* str.startswith, str.split, os.path.join, os.path.normpath and the       *)
(* text-mode newline translation are computed character by character.      *)
(* Durations are integers in milliseconds (timeout = 2 is 2000).           *)
(* An Optional value is <<>> (None) or <<v>>.                              *)
(***************************************************************************)
EXTENDS Integers, Sequences, FiniteSets, TLC

VARIABLES
    fs,                \* the filesystem: path -> [type, data]
    result,            \* what the last tool call returned
    pc,                \* run_command's position: "idle", "waiting", "reaping"
    call,              \* the arguments of the run_command call in flight (or the last one)
    working_dir,       \* run_command's local working_dir
    timeout_secs,      \* run_command's local timeout_secs, Optional, in ms
    proc,              \* the spawned process group and its pipes
    MAX_OUTPUT_LINES,  \* resolved once at import (server.py:70)
    server_stdin_read, \* history: the spawned process has read the server's own stdin
    at_deadline        \* history: what the wait saw when the deadline elapsed

vars == <<fs, result, pc, call, working_dir, timeout_secs, proc,
          MAX_OUTPUT_LINES, server_stdin_read, at_deadline>>

runVars == <<pc, call, working_dir, timeout_secs, proc, server_stdin_read, at_deadline>>

----------------------------------------------------------------------------
(* Bounds of the model *)

\* longest caller-supplied path, in segments, of the confinement specification
MaxSegs == 3
\* longest captured output, in bytes, of the output-limiting specification
MaxLen == 3
\* largest configured line limit of the output-limiting specification
MaxLimit == 3

----------------------------------------------------------------------------
(* Optional values *)

None == <<>>
Some(v) == <<v>>
Get(o) == o[1]

----------------------------------------------------------------------------
(* Strings *)

SLASH == "/"
NL == "\n"
CR == "\r"
DOT == <<".">>
DOTDOT == <<".", ".">>

\* str.startswith
startswith(s, prefix) ==
    /\ Len(s) >= Len(prefix)
    /\ SubSeq(s, 1, Len(prefix)) = prefix

RECURSIVE SplitFrom(_, _, _, _)
SplitFrom(s, sep, i, cur) ==
    IF i > Len(s) THEN <<cur>>
    ELSE IF s[i] = sep THEN <<cur>> \o SplitFrom(s, sep, i + 1, <<>>)
    ELSE SplitFrom(s, sep, i + 1, Append(cur, s[i]))

\* str.split(sep): never empty, split("") = [""]
split(s, sep) == SplitFrom(s, sep, 1, <<>>)

\* sep.join(parts)
RECURSIVE join(_, _)
join(sep, parts) ==
    IF parts = <<>> THEN <<>>
    ELSE IF Len(parts) = 1 THEN parts[1]
    ELSE parts[1] \o <<sep>> \o join(sep, Tail(parts))

\* the index of the last occurrence of c in s, 0 when there is none
RECURSIVE rfind(_, _, _)
rfind(s, c, i) ==
    IF i = 0 THEN 0
    ELSE IF s[i] = c THEN i
    ELSE rfind(s, c, i - 1)

RECURSIVE rstrip(_, _)
rstrip(s, c) ==
    IF s # <<>> /\ s[Len(s)] = c THEN rstrip(SubSeq(s, 1, Len(s) - 1), c) ELSE s

----------------------------------------------------------------------------
(* posixpath *)

\* os.path.join(a, b)
path_join(a, b) ==
    IF startswith(b, <<SLASH>>) THEN b
    ELSE IF a = <<>> \/ a[Len(a)] = SLASH THEN a \o b
    ELSE a \o <<SLASH>> \o b

\* the number of slashes normpath keeps in front: 0, 1, or 2 for exactly two
initial_slashes(path) ==
    IF ~startswith(path, <<SLASH>>) THEN 0
    ELSE IF startswith(path, <<SLASH, SLASH>>) /\ ~startswith(path, <<SLASH, SLASH, SLASH>>)
         THEN 2
    ELSE 1

RECURSIVE new_comps(_, _, _)
new_comps(comps, acc, initial) ==
    IF comps = <<>> THEN acc
    ELSE LET comp == Head(comps)
             rest == Tail(comps)
         IN IF comp = <<>> \/ comp = DOT THEN new_comps(rest, acc, initial)
            ELSE IF \/ comp # DOTDOT
                    \/ (initial = 0 /\ acc = <<>>)
                    \/ (acc # <<>> /\ acc[Len(acc)] = DOTDOT)
                 THEN new_comps(rest, Append(acc, comp), initial)
            ELSE IF acc # <<>>
                 THEN new_comps(rest, SubSeq(acc, 1, Len(acc) - 1), initial)
            ELSE new_comps(rest, acc, initial)

\* os.path.normpath(path): lexical, never touches the filesystem
normpath(path) ==
    IF path = <<>> THEN DOT
    ELSE LET initial == initial_slashes(path)
             body == join(SLASH, new_comps(split(path, SLASH), <<>>, initial))
             out == [i \in 1..initial |-> SLASH] \o body
         IN IF out = <<>> THEN DOT ELSE out

\* os.path.dirname(p)
dirname(p) ==
    LET i == rfind(p, SLASH, Len(p))
        head == SubSeq(p, 1, i)
    IN IF head # <<>> /\ head # [k \in 1..Len(head) |-> SLASH]
       THEN rstrip(head, SLASH)
       ELSE head

\* os.path.basename(p)
basename(p) == SubSeq(p, rfind(p, SLASH, Len(p)) + 1, Len(p))

----------------------------------------------------------------------------
(* Program constants *)

\* BASE_DIR = "/data"
BASE_DIR == <<"/", "d", "a", "t", "a">>

DEFAULT_MAX_LINES == 1000

\* timeout_secs = 60.0, in ms
DEFAULT_TIMEOUT == 60000

ROOT == <<SLASH>>

----------------------------------------------------------------------------
(* The filesystem the os calls act on *)

Dir == [type |-> "dir", data |-> <<>>]
File(bytes) == [type |-> "file", data |-> bytes]

exists(f, p) == p \in DOMAIN f
isdir(f, p) == p \in DOMAIN f /\ f[p].type = "dir"
isfile(f, p) == p \in DOMAIN f /\ f[p].type = "file"

\* p and every directory above it, up to the root
RECURSIVE Prefixes(_)
Prefixes(p) ==
    IF dirname(p) = p THEN {p} ELSE {p} \cup Prefixes(dirname(p))

Children(f, p) == {q \in DOMAIN f : q # p /\ dirname(q) = p}

\* os.makedirs(name, exist_ok=True): [ok, fs]. A file anywhere on the way
\* raises (NotADirectoryError, or FileExistsError for name itself) before
\* anything is created, since nothing exists below a file.
makedirs(f, name) ==
    IF \E q \in Prefixes(name) : isfile(f, q)
    THEN [ok |-> FALSE, fs |-> f]
    ELSE [ok |-> TRUE,
          fs |-> [q \in DOMAIN f \cup Prefixes(name) |->
                     IF q \in DOMAIN f THEN f[q] ELSE Dir]]

\* os.linesep
linesep == <<NL>>

\* what a text-mode f.write(content) stores (newline=None: "\n" -> os.linesep)
RECURSIVE WriteText(_)
WriteText(s) ==
    IF s = <<>> THEN <<>>
    ELSE IF Head(s) = NL THEN linesep \o WriteText(Tail(s))
    ELSE <<Head(s)>> \o WriteText(Tail(s))

\* what a text-mode f.read() returns (newline=None: universal newlines,
\* "\r\n" and "\r" both read as "\n")
RECURSIVE ReadText(_)
ReadText(s) ==
    IF s = <<>> THEN <<>>
    ELSE IF Head(s) = CR
         THEN IF Len(s) >= 2 /\ s[2] = NL
              THEN <<NL>> \o ReadText(Tail(Tail(s)))
              ELSE <<NL>> \o ReadText(Tail(s))
    ELSE <<Head(s)>> \o ReadText(Tail(s))

----------------------------------------------------------------------------
(* What a tool returns *)

ConfinementError(msg) == [kind |-> "confinement_error", msg |-> msg]
IOError(msg) == [kind |-> "error", msg |-> msg]
Ok(msg) == [kind |-> "ok", msg |-> msg]

Return(op, arg, target, value) ==
    [op |-> op, arg |-> arg, target |-> target, value |-> value]

NoResult == Return("none", <<>>, <<>>, [kind |-> "none"])

\* no run_command call is in flight
Idle == pc = "idle"

----------------------------------------------------------------------------
(* The file tools *)

list_files(path) ==
    LET target_dir == normpath(path_join(BASE_DIR, path)) IN
    /\ Idle
    /\ IF ~startswith(target_dir, BASE_DIR)
       THEN result' = Return("list_files", path, target_dir,
                ConfinementError("Error: Cannot access directories outside of the base directory."))
       ELSE IF ~isdir(fs, target_dir)
       THEN result' = Return("list_files", path, target_dir, IOError("Error listing files"))
       ELSE result' = Return("list_files", path, target_dir,
                [kind |-> "listing",
                 entries |-> {[name |-> basename(q),
                               type |-> IF isdir(fs, q) THEN "Directory" ELSE "File",
                               size |-> IF isdir(fs, q) THEN -1 ELSE Len(fs[q].data)]
                              : q \in Children(fs, target_dir)}])
    /\ UNCHANGED <<fs, MAX_OUTPUT_LINES>>
    /\ UNCHANGED runVars

read_file(file_path) ==
    LET target_file == normpath(path_join(BASE_DIR, file_path)) IN
    /\ Idle
    /\ IF ~startswith(target_file, BASE_DIR)
       THEN result' = Return("read_file", file_path, target_file,
                ConfinementError("Error: Cannot access files outside of the base directory."))
       ELSE IF ~isfile(fs, target_file)
       THEN result' = Return("read_file", file_path, target_file,
                IOError("Error: File does not exist or is not a file"))
       ELSE result' = Return("read_file", file_path, target_file,
                [kind |-> "content", text |-> ReadText(fs[target_file].data)])
    /\ UNCHANGED <<fs, MAX_OUTPUT_LINES>>
    /\ UNCHANGED runVars

WriteFileMkdirFirst(file_path, content) ==
    LET target_file == normpath(path_join(BASE_DIR, file_path))
        made == makedirs(fs, dirname(target_file))
    IN
    /\ Idle
    /\ IF ~startswith(target_file, BASE_DIR)
       THEN /\ result' = Return("write_file", file_path, target_file,
                    ConfinementError("Error: Cannot access files outside of the base directory."))
            /\ fs' = made.fs
       ELSE IF ~made.ok \/ isdir(made.fs, target_file)
       THEN /\ result' = Return("write_file", file_path, target_file,
                    IOError("Error writing to file"))
            /\ fs' = made.fs
       ELSE /\ result' = Return("write_file", file_path, target_file,
                    Ok("Successfully wrote to"))
            /\ fs' = [q \in DOMAIN made.fs \cup {target_file} |->
                        IF q = target_file THEN File(WriteText(content)) ELSE made.fs[q]]
    /\ UNCHANGED MAX_OUTPUT_LINES
    /\ UNCHANGED runVars

write_file(file_path, content) ==
    LET target_file == normpath(path_join(BASE_DIR, file_path))
        made == makedirs(fs, dirname(target_file))
    IN
    /\ Idle
    /\ IF ~startswith(target_file, BASE_DIR)
       THEN /\ result' = Return("write_file", file_path, target_file,
                    ConfinementError("Error: Cannot access files outside of the base directory."))
            /\ fs' = fs
       ELSE IF ~made.ok \/ isdir(made.fs, target_file)
       THEN \* makedirs raised, or open(target_file, 'w') raised IsADirectoryError
            /\ result' = Return("write_file", file_path, target_file,
                    IOError("Error writing to file"))
            /\ fs' = made.fs
       ELSE \* open(..., 'w') truncates, f.write stores the translated text
            /\ result' = Return("write_file", file_path, target_file,
                    Ok("Successfully wrote to"))
            /\ fs' = [q \in DOMAIN made.fs \cup {target_file} |->
                        IF q = target_file THEN File(WriteText(content)) ELSE made.fs[q]]
    /\ UNCHANGED MAX_OUTPUT_LINES
    /\ UNCHANGED runVars

delete_file(file_path) ==
    LET target_file == normpath(path_join(BASE_DIR, file_path))
        removed == [q \in DOMAIN fs \ {target_file} |-> fs[q]]
    IN
    /\ Idle
    /\ IF ~startswith(target_file, BASE_DIR)
       THEN /\ result' = Return("delete_file", file_path, target_file,
                    ConfinementError("Error: Cannot access files outside of the base directory."))
            /\ fs' = fs
       ELSE IF ~exists(fs, target_file)
       THEN /\ result' = Return("delete_file", file_path, target_file,
                    IOError("Error: File does not exist"))
            /\ fs' = fs
       ELSE IF isdir(fs, target_file)
       THEN IF Children(fs, target_file) # {}
            THEN \* os.rmdir raises on a directory that is not empty
                 /\ result' = Return("delete_file", file_path, target_file,
                         IOError("Error deleting file"))
                 /\ fs' = fs
            ELSE /\ result' = Return("delete_file", file_path, target_file,
                         Ok("Successfully deleted directory"))
                 /\ fs' = removed
       ELSE /\ result' = Return("delete_file", file_path, target_file,
                    Ok("Successfully deleted file"))
            /\ fs' = removed
    /\ UNCHANGED MAX_OUTPUT_LINES
    /\ UNCHANGED runVars

----------------------------------------------------------------------------
(* Bytes and text *)

REPLACEMENT == "U+FFFD"

\* str.encode("utf-8"): one byte per ASCII character, two for U+00E9 (e acute)
RECURSIVE encode(_)
encode(s) ==
    IF s = <<>> THEN <<>>
    ELSE IF Head(s) = "U+00E9" THEN <<"xC3", "xA9">> \o encode(Tail(s))
    ELSE <<Head(s)>> \o encode(Tail(s))

\* bytes.decode("utf-8", errors="replace"): never raises
RECURSIVE decode(_)
decode(b) ==
    IF b = <<>> THEN <<>>
    ELSE IF Head(b) = "xC3" /\ Len(b) >= 2 /\ b[2] = "xA9"
         THEN <<"U+00E9">> \o decode(Tail(Tail(b)))
    ELSE IF Head(b) \in {"xC3", "xA9", "xFF"} THEN <<REPLACEMENT>> \o decode(Tail(b))
    ELSE <<Head(b)>> \o decode(Tail(b))

Take(s, n) == SubSeq(s, 1, IF n < Len(s) THEN n ELSE Len(s))

TruncateOffByOne(text, max_lines) ==
    IF text = <<>> THEN [text |-> text, truncated |-> FALSE]
    ELSE LET lines == split(text, NL) IN
         IF Len(lines) <= max_lines + 1 THEN [text |-> text, truncated |-> FALSE]
         ELSE [text |-> join(NL, Take(lines, max_lines + 1)), truncated |-> TRUE]

_truncate_lines(text, max_lines) ==
    IF text = <<>> THEN [text |-> text, truncated |-> FALSE]
    ELSE LET lines == split(text, NL) IN
         IF Len(lines) <= max_lines THEN [text |-> text, truncated |-> FALSE]
         ELSE [text |-> join(NL, Take(lines, max_lines)), truncated |-> TRUE]

----------------------------------------------------------------------------
(* run_command: the deadline *)

\* lines 220-228; timeout is in seconds, timeout_ms and the value in ms
EffectiveTimeout(timeout, timeout_ms) ==
    IF timeout # None \/ timeout_ms # None
    THEN LET secs == IF timeout # None THEN Some(Get(timeout) * 1000)
                     ELSE IF timeout_ms # None THEN Some(Get(timeout_ms))
                     ELSE None
         IN IF secs # None /\ Get(secs) > 0 THEN secs ELSE None
    ELSE Some(DEFAULT_TIMEOUT)

----------------------------------------------------------------------------
(* run_command: what the shell does with the command string *)

Commands == {"echo a", "ls nosuch", "sleep infinity", "sleep 100 &",
             "sleep 100 >/dev/null 2>&1 &", "cat"}

\* the shell exits on its own
halts(command) == command # "sleep infinity"
\* the shell forks a background child
forks(command) == command \in {"sleep 100 &", "sleep 100 >/dev/null 2>&1 &"}
\* the child keeps the stdout/stderr pipes it inherited
inherits_pipes(command) == command = "sleep 100 &"
\* the shell reads its standard input to end-of-file before it exits
reads_stdin(command) == command = "cat"
exit_status(command) == IF command = "ls nosuch" THEN 2 ELSE 0
stdout_of(command, input) ==
    IF command = "echo a" THEN <<"a", NL>>
    ELSE IF command = "cat" THEN input
    ELSE <<>>
stderr_of(command) == IF command = "ls nosuch" THEN <<"e", NL>> ELSE <<>>

NoProc == [shell |-> "none", child |-> "none", holds |-> FALSE,
           stdin |-> "none", input |-> <<>>, out |-> <<>>, err |-> <<>>,
           returncode |-> None]
NoCall == [command |-> "", stdin |-> None, cwd |-> <<>>,
           timeout |-> None, timeout_ms |-> None]

\* create_subprocess_shell(..., stdin=PIPE if stdin is not None else None,
\* start_new_session=True): stdin=None leaves the child the server's own stdin
Spawned(command, stdin) ==
    [shell |-> "running",
     child |-> IF forks(command) THEN "running" ELSE "none",
     holds |-> inherits_pipes(command),
     stdin |-> IF stdin # None THEN "pipe_open" ELSE "inherited",
     input |-> <<>>,
     out |-> <<>>,
     err |-> <<>>,
     returncode |-> None]

\* a write end of the stdout/stderr pipes is still open
PipesOpen(p) == p.shell = "running" \/ (p.child = "running" /\ p.holds)

\* members of the spawned process group that are running
GroupRunning(p) ==
    (IF p.shell = "running" THEN {"shell"} ELSE {}) \cup
    (IF p.child = "running" THEN {"child"} ELSE {})

----------------------------------------------------------------------------
(* run_command: the results *)

TIMED_OUT_MSG == <<"C", "o", "m", "m", "a", "n", "d", " ",
                   "t", "i", "m", "e", "d", " ", "o", "u", "t">>

CwdError(cwd) ==
    [kind |-> "cwd_error",
     error |-> "Cannot use cwd outside of the base directory",
     cwd |-> cwd]

SpawnError(command, wd, max_lines) ==
    [kind |-> "spawn_error", error |-> "Error running command",
     cwd |-> wd, command |-> command,
     truncated |-> FALSE, stdout_truncated |-> FALSE, stderr_truncated |-> FALSE,
     max_lines |-> max_lines]

TimedOutResultPartial(p, command, wd, ts, max_lines) ==
    [kind |-> "result",
     stdout |-> decode(p.out),
     stderr |-> TIMED_OUT_MSG,
     exit_code |-> p.returncode,
     cwd |-> wd, command |-> command, timeout_seconds |-> ts,
     timed_out |-> TRUE,
     truncated |-> FALSE, stdout_truncated |-> FALSE, stderr_truncated |-> FALSE,
     max_lines |-> max_lines]

\* lines 264-276
TimedOutResult(p, command, wd, ts, max_lines) ==
    [kind |-> "result",
     stdout |-> <<>>,
     stderr |-> TIMED_OUT_MSG,
     exit_code |-> None,
     cwd |-> wd, command |-> command, timeout_seconds |-> ts,
     timed_out |-> TRUE,
     truncated |-> FALSE, stdout_truncated |-> FALSE, stderr_truncated |-> FALSE,
     max_lines |-> max_lines]

\* lines 278-307
CompletedResult(stdout_bytes, stderr_bytes, returncode, command, wd, ts, max_lines) ==
    LET stdout == IF stdout_bytes # <<>> THEN decode(stdout_bytes) ELSE <<>>
        stderr == IF stderr_bytes # <<>> THEN decode(stderr_bytes) ELSE <<>>
        out == _truncate_lines(stdout, max_lines)
        err == _truncate_lines(stderr, max_lines)
    IN [kind |-> "result",
        stdout |-> out.text,
        stderr |-> err.text,
        exit_code |-> returncode,
        cwd |-> wd, command |-> command, timeout_seconds |-> ts,
        timed_out |-> FALSE,
        truncated |-> out.truncated \/ err.truncated,
        stdout_truncated |-> out.truncated,
        stderr_truncated |-> err.truncated,
        max_lines |-> max_lines]

----------------------------------------------------------------------------
(* run_command *)

\* proc.communicate() inside wait_for can return: the shell has exited and
\* both output pipes are at end-of-file (every holder of a write end closed it)
CommunicateOnShellExit == proc.shell = "exited"

CommunicateReady == proc.shell = "exited" /\ ~PipesOpen(proc)

\* lines 203-239: from the call to the spawn
run_command(command, stdin, cwd, timeout, timeout_ms) ==
    LET candidate == normpath(path_join(BASE_DIR, cwd))
        wd == IF cwd # <<>> THEN candidate ELSE BASE_DIR
        ts == EffectiveTimeout(timeout, timeout_ms)
    IN
    /\ Idle
    /\ IF cwd # <<>> /\ ~startswith(candidate, BASE_DIR)
       THEN /\ result' = Return("run_command", cwd, candidate, CwdError(cwd))
            /\ UNCHANGED runVars
       ELSE /\ call' = [command |-> command, stdin |-> stdin, cwd |-> cwd,
                        timeout |-> timeout, timeout_ms |-> timeout_ms]
            /\ working_dir' = wd
            /\ timeout_secs' = ts
            /\ server_stdin_read' = FALSE
            /\ at_deadline' = "none"
            /\ IF ~isdir(fs, wd)
               THEN \* create_subprocess_shell raises: cwd is missing or no directory
                    /\ result' = Return("run_command", cwd, wd,
                                        SpawnError(command, wd, MAX_OUTPUT_LINES))
                    /\ proc' = NoProc
                    /\ pc' = "idle"
               ELSE /\ result' = Return("run_command", cwd, wd, [kind |-> "pending"])
                    /\ proc' = Spawned(command, stdin)
                    /\ pc' = "waiting"
    /\ UNCHANGED <<fs, MAX_OUTPUT_LINES>>

\* communicate(input=...) writes the whole input to the pipe and closes it
feed_stdin ==
    /\ pc = "waiting"
    /\ proc.stdin = "pipe_open"
    /\ proc.shell = "running"
    /\ proc' = [proc EXCEPT !.stdin = "pipe_closed",
                            !.input = encode(Get(call.stdin))]
    /\ UNCHANGED <<fs, result, pc, call, working_dir, timeout_secs,
                   MAX_OUTPUT_LINES, server_stdin_read, at_deadline>>

\* the command reads fd 0, which is the server's own stdin (the MCP transport)
read_server_stdin ==
    /\ pc = "waiting"
    /\ proc.shell = "running"
    /\ proc.stdin = "inherited"
    /\ reads_stdin(call.command)
    /\ ~server_stdin_read
    /\ server_stdin_read' = TRUE
    /\ UNCHANGED <<fs, result, pc, call, working_dir, timeout_secs, proc,
                   MAX_OUTPUT_LINES, at_deadline>>

\* the shell writes its output and exits on its own; a reader of stdin only
\* after end-of-file
shell_exit ==
    /\ pc = "waiting"
    /\ proc.shell = "running"
    /\ halts(call.command)
    /\ reads_stdin(call.command) => proc.stdin = "pipe_closed"
    /\ proc' = [proc EXCEPT !.shell = "exited",
                            !.out = stdout_of(call.command, proc.input),
                            !.err = stderr_of(call.command),
                            !.returncode = Some(exit_status(call.command))]
    /\ UNCHANGED <<fs, result, pc, call, working_dir, timeout_secs,
                   MAX_OUTPUT_LINES, server_stdin_read, at_deadline>>

\* the background child exits on its own, during the call or after it
child_exit ==
    /\ proc.child = "running"
    /\ proc' = [proc EXCEPT !.child = "exited"]
    /\ UNCHANGED <<fs, result, pc, call, working_dir, timeout_secs,
                   MAX_OUTPUT_LINES, server_stdin_read, at_deadline>>

\* lines 242-245 and 278-307: communicate() returned before the deadline
communicate_done ==
    /\ pc = "waiting"
    /\ CommunicateReady
    /\ result' = Return("run_command", call.cwd, working_dir,
                        CompletedResult(proc.out, proc.err, proc.returncode, call.command, working_dir,
                                        timeout_secs, MAX_OUTPUT_LINES))
    /\ pc' = "idle"
    /\ UNCHANGED <<fs, call, working_dir, timeout_secs, proc,
                   MAX_OUTPUT_LINES, server_stdin_read, at_deadline>>

\* lines 246-258: wait_for raised TimeoutError; os.killpg(proc.pid, SIGKILL)
\* kills every running member of the group (with none left it raises, and
\* the fallback proc.kill() is swallowed)
deadline_elapsed ==
    /\ pc = "waiting"
    /\ timeout_secs # None
    /\ at_deadline' = IF proc.shell = "exited"
                      THEN (IF PipesOpen(proc) THEN "exited_pipes_open" ELSE "exited")
                      ELSE "running"
    /\ proc' = [proc EXCEPT
                  !.shell = IF @ = "running" THEN "killed" ELSE @,
                  !.child = IF @ = "running" THEN "killed" ELSE @]
    /\ pc' = "reaping"
    /\ UNCHANGED <<fs, result, call, working_dir, timeout_secs,
                   MAX_OUTPUT_LINES, server_stdin_read>>

\* lines 259-276: the second communicate() returned
reaped ==
    /\ pc = "reaping"
    /\ ~PipesOpen(proc)
    /\ result' = Return("run_command", call.cwd, working_dir,
                        TimedOutResult(proc, call.command, working_dir,
                                       timeout_secs, MAX_OUTPUT_LINES))
    /\ pc' = "idle"
    /\ UNCHANGED <<fs, call, working_dir, timeout_secs, proc,
                   MAX_OUTPUT_LINES, server_stdin_read, at_deadline>>

----------------------------------------------------------------------------
(* Inputs *)

Str_f == <<"f">>
Str_s == <<"s">>
Str_m == <<"m">>
Str_sf == <<"s", "/", "f">>
Str_up_e == <<".", ".", "/", "e">>
Str_data2 == <<"d", "a", "t", "a", "2">>
Str_up_data2 == <<".", ".", "/">> \o Str_data2

\* paths the file tools are called with
FsPaths == {<<>>, Str_f, Str_s, Str_sf, Str_up_e, Str_up_data2}
\* contents write_file is called with
Contents == {<<"a">>, <<"a", CR, NL, "b">>}
\* cwd: none, an existing directory, a missing one, one outside BASE_DIR
Cwds == {<<>>, Str_s, Str_m, Str_up_e}
Stdins == {None, Some(<<"h", "U+00E9">>)}
Timeouts == {None, Some(-5), Some(2)}
TimeoutsMs == {None, Some(0), Some(1500)}

----------------------------------------------------------------------------
(* Spec: run_command and the process group it spawns *)

InitFs == [q \in {ROOT, BASE_DIR, path_join(BASE_DIR, Str_s)} |-> Dir]

Init ==
    /\ fs = InitFs
    /\ result = NoResult
    /\ pc = "idle"
    /\ call = NoCall
    /\ working_dir = BASE_DIR
    /\ timeout_secs = None
    /\ proc = NoProc
    /\ MAX_OUTPUT_LINES = DEFAULT_MAX_LINES
    /\ server_stdin_read = FALSE
    /\ at_deadline = "none"

RunTool ==
    \/ \E command \in Commands, stdin \in Stdins, timeout \in {None, Some(-5)} :
          run_command(command, stdin, <<>>, timeout, None)
    \/ \E timeout \in Timeouts, timeout_ms \in TimeoutsMs :
          run_command("echo a", None, <<>>, timeout, timeout_ms)
    \/ \E cwd \in Cwds :
          run_command("echo a", None, cwd, None, None)

ProcessStep ==
    \/ feed_stdin
    \/ read_server_stdin
    \/ shell_exit
    \/ child_exit
    \/ communicate_done
    \/ deadline_elapsed
    \/ reaped

Next == RunTool \/ ProcessStep

Spec == Init /\ [][Next]_vars

\* The event loop runs a coroutine that can continue and fires an armed
\* timer; a command that exits on its own does exit.
Fairness ==
    /\ WF_vars(feed_stdin)
    /\ WF_vars(shell_exit)
    /\ WF_vars(child_exit)
    /\ WF_vars(communicate_done)
    /\ WF_vars(deadline_elapsed)
    /\ WF_vars(reaped)

LiveSpec == Init /\ [][Next]_vars /\ Fairness

----------------------------------------------------------------------------
(* SpecFs: the file tools *)

FileTool ==
    \E p \in FsPaths :
        \/ list_files(p)
        \/ read_file(p)
        \/ \E c \in Contents : write_file(p, c)
        \/ delete_file(p)

SpecFs == Init /\ [][FileTool]_vars

----------------------------------------------------------------------------
(* SpecConfine: one call of each tool, for every caller-supplied path *)

Str_data == <<"d", "a", "t", "a">>
Segs == {<<>>, DOT, DOTDOT, Str_data, Str_data2, Str_s}
SegSeqs(n) == UNION {[1..k -> Segs] : k \in 1..n}
\* "", "s", "../data2", "/data/..", "//data", "data/./s", ...
PathInputs == {join(SLASH, ss) : ss \in SegSeqs(MaxSegs)}

\* a filesystem with entries inside BASE_DIR, beside it and above it
OutsideFs ==
    LET dirs == {ROOT, BASE_DIR, path_join(BASE_DIR, Str_s),
                 path_join(ROOT, Str_data2), path_join(ROOT, Str_s)}
        files == {path_join(path_join(BASE_DIR, Str_s), Str_data),
                  path_join(path_join(ROOT, Str_data2), Str_s)}
    IN [q \in dirs \cup files |-> IF q \in dirs THEN Dir ELSE File(<<"a">>)]

InitConfine ==
    /\ fs \in {InitFs, OutsideFs}
    /\ result = NoResult
    /\ pc = "idle"
    /\ call = NoCall
    /\ working_dir = BASE_DIR
    /\ timeout_secs = None
    /\ proc = NoProc
    /\ MAX_OUTPUT_LINES = DEFAULT_MAX_LINES
    /\ server_stdin_read = FALSE
    /\ at_deadline = "none"

NextConfine ==
    /\ result = NoResult
    /\ \E p \in PathInputs :
          \/ list_files(p)
          \/ read_file(p)
          \/ \E c \in Contents : write_file(p, c)
          \/ delete_file(p)
          \/ run_command("echo a", None, p, None, None)

SpecConfine == InitConfine /\ [][NextConfine]_vars

----------------------------------------------------------------------------
(* SpecLimit: a command has exited, having written any bytes to its pipes *)

Bytes == {"a", NL, "xFF"}
ByteSeqs(n) == UNION {[1..k -> Bytes] : k \in 0..n}

InitLimit ==
    /\ fs = InitFs
    /\ result = Return("run_command", <<>>, BASE_DIR, [kind |-> "pending"])
    /\ pc = "waiting"
    /\ call = [NoCall EXCEPT !.command = "printf"]
    /\ working_dir = BASE_DIR
    /\ timeout_secs = Some(DEFAULT_TIMEOUT)
    /\ \E out \in ByteSeqs(MaxLen), err \in ByteSeqs(MaxLen) :
          proc = [NoProc EXCEPT !.shell = "exited", !.stdin = "inherited",
                                !.out = out, !.err = err, !.returncode = Some(0)]
    /\ MAX_OUTPUT_LINES \in 1..MaxLimit
    /\ server_stdin_read = FALSE
    /\ at_deadline = "none"

SpecLimit == InitLimit /\ [][communicate_done]_vars

----------------------------------------------------------------------------
(* Claims *)

\* the last call was a run_command that returned the full result shape
RunReturned ==
    /\ pc = "idle"
    /\ result.op = "run_command"
    /\ result.value.kind = "result"

Rejected(r) == r.value.kind \in {"confinement_error", "cwd_error"}

\* t is BASE_DIR or a descendant of it
Within(t) == t = BASE_DIR \/ startswith(t, BASE_DIR \o <<SLASH>>)

\* C1: a tool called with path p rejects it with the confinement error when
\* normpath(join(BASE_DIR, p)) is neither BASE_DIR nor a descendant of it,
\* and accepts it, with a resolved path inside BASE_DIR, otherwise.
C1_Confinement ==
    result.op # "none" =>
        LET t == normpath(path_join(BASE_DIR, result.arg)) IN
        /\ ~Within(t) => Rejected(result)
        /\ Within(t) => ~Rejected(result) /\ Within(result.target)

\* C2: once run_command has returned a result, completed or timed out, no
\* process of the spawned group is still running.
C2_GroupKill == RunReturned => GroupRunning(proc) = {}

\* the call ended because the deadline elapsed
EndedByDeadline == RunReturned /\ at_deadline # "none"

ClaimedDeadline(timeout, timeout_ms) ==
    IF timeout # None /\ Get(timeout) > 0 THEN Some(Get(timeout) * 1000)
    ELSE IF timeout_ms # None /\ Get(timeout_ms) > 0 THEN Some(Get(timeout_ms))
    ELSE Some(DEFAULT_TIMEOUT)

\* C4: the effective deadline is timeout when > 0, else timeout_ms/1000 when
\* > 0, else 60 s, and the deadline a result reports is never null.
C4_Deadline ==
    /\ call # NoCall => timeout_secs = ClaimedDeadline(call.timeout, call.timeout_ms)
    /\ RunReturned => result.value.timeout_seconds # None

\* C5: every run_command call that spawned a process returns.
C5_Returns == (pc = "waiting") ~> (pc = "idle")

NewlineCount(t) == Cardinality({i \in 1..Len(t) : t[i] = NL})
\* the index of the n-th newline of t
NthNewline(t, n) ==
    CHOOSE i \in 1..Len(t) :
        t[i] = NL /\ Cardinality({j \in 1..i : t[j] = NL}) = n
\* t when it has at most n lines, else what stands before its n-th newline
Limited(t, n) ==
    IF NewlineCount(t) < n THEN [text |-> t, truncated |-> FALSE]
    ELSE [text |-> SubSeq(t, 1, NthNewline(t, n) - 1), truncated |-> TRUE]

\* C6: stdout and stderr of a completed command are each returned unchanged
\* and unflagged when they have at most MAX_OUTPUT_LINES newline-separated
\* segments, else cut to the first MAX_OUTPUT_LINES segments and flagged;
\* truncated is the OR of the two flags.
C6_OutputLimit ==
    (RunReturned /\ ~result.value.timed_out) =>
        LET out == Limited(decode(proc.out), MAX_OUTPUT_LINES)
            err == Limited(decode(proc.err), MAX_OUTPUT_LINES)
        IN /\ result.value.stdout = out.text
           /\ result.value.stdout_truncated = out.truncated
           /\ result.value.stderr = err.text
           /\ result.value.stderr_truncated = err.truncated
           /\ result.value.truncated =
                  (result.value.stdout_truncated \/ result.value.stderr_truncated)

C6_Witness ==
    /\ RunReturned
    /\ result.value.stdout_truncated
    /\ ~result.value.stderr_truncated
    /\ result.value.stderr # <<>>
    /\ Len(split(result.value.stdout, NL)) = MAX_OUTPUT_LINES
    /\ MAX_OUTPUT_LINES > 1

\* what read_file(file_path) would return on filesystem f
ReadBack(f, file_path) ==
    LET target_file == normpath(path_join(BASE_DIR, file_path)) IN
    IF isfile(f, target_file) THEN Some(ReadText(f[target_file].data)) ELSE None

\* C7: after write_file(file_path, c) on a confined path whose parent
\* directories exist or can be created (and that is no directory itself), a
\* read_file(file_path) that follows returns exactly c.
C7_RoundTrip ==
    (/\ result.op = "write_file"
     /\ ~Rejected(result)
     /\ ~isdir(fs, result.target)
     /\ \A q \in Prefixes(dirname(result.target)) : ~isfile(fs, q))
    => \E c \in Contents :
          /\ fs[result.target] = File(WriteText(c))
          /\ ReadBack(fs, result.arg) = Some(c)

\* C8: a step that ends in a confinement rejection leaves the filesystem as
\* it was and spawns no process, and run_command's error carries the cwd it
\* was called with.
C8_FailFast ==
    [][Rejected(result') =>
          /\ fs' = fs
          /\ proc' = proc
          /\ pc' = pc
          /\ result'.op = "run_command" => result'.value.cwd = result'.arg]_vars

C8_Witness ==
    /\ Rejected(result)
    /\ result.op = "write_file"
    /\ fs = OutsideFs

\* C9 as claimed: a shell that exited before the deadline elapsed gives the
\* Completed branch with the shell's exit code and nothing killed, also with
\* a descendant still holding the output pipes; the TimedOut branch is taken
\* only if the shell had not exited when the deadline elapsed. (A tie, the
\* deadline elapsing when communicate() could return and had not yet, is
\* left to either branch.)
C9_Race ==
    RunReturned =>
        /\ result.value.timed_out => at_deadline \in {"running", "exited"}
        /\ ~result.value.timed_out =>
              /\ result.value.exit_code = proc.returncode
              /\ "killed" \notin {proc.shell, proc.child}

\* C9 amended: the race is between communicate() returning (the shell has
\* exited and both output pipes are at end-of-file) and the deadline. The
\* Completed branch is taken only with the shell exited and no descendant
\* holding a pipe open, reports the shell's exit code and kills nothing; the
\* TimedOut branch is taken only when the deadline elapsed before that.
C9_RaceAmended ==
    RunReturned =>
        /\ result.value.timed_out => at_deadline # "none"
        /\ ~result.value.timed_out =>
              /\ at_deadline = "none"
              /\ proc.shell = "exited"
              /\ ~PipesOpen(proc)
              /\ result.value.exit_code = proc.returncode
              /\ "killed" \notin {proc.shell, proc.child}

C9_Witness ==
    /\ RunReturned
    /\ result.value.timed_out
    /\ at_deadline = "exited_pipes_open"
    /\ proc.child = "killed"

\* C10: the spawned process never reads the server's own input stream, and
\* stdin text, once fed, has been written in full, UTF-8 encoded.
C10_Stdin ==
    /\ ~server_stdin_read
    /\ proc.stdin = "pipe_closed" => proc.input = encode(Get(call.stdin))

====
